---- MODULE Spec2Model ----
(***************************************************************************)
(* A model of the job-board backend of src/src/jobs.py: three tables       *)
(* (users, jobs, applications) and the route handlers that read and write  *)
(* them.  A handler is an operator from the tables and the request to the  *)
(* tables it leaves, its response and the mail it tried to send.  Spec     *)
(* runs one request at a time, each route as one step.                     *)
(* SpecConc runs the writing handlers of several requests interleaved at   *)
(* the granularity of their database statements and SMTP calls.            *)
(***************************************************************************)
EXTENDS Integers, Sequences, FiniteSets, TLC

\* ------------------------------------------------------------- bounds
MaxUsers == 3
MaxJobs == 1
MaxApps == 2

\* Request inputs are drawn from these sets.
Emails == {"r@x", "c@x", "d@x"}
Passwords == {"pw1", "pw2"}
Roles == {"recruiter", "candidate", "admin"}
Titles == {"Backend Engineer"}
Descriptions == {"APIs"}
\* A request without an Authorization header carries no token.
NoHeader == "<no Authorization header>"
Tokens == Emails \cup {NoHeader}
JobIds == 1..(MaxJobs + 1)

\* ------------------------------------------------------------- state
VARIABLES
    users,          \* table users: rows [id, email, password, role] in storage order
    jobs,           \* table jobs: rows [id, title, description, recruiter_id]
    applications,   \* table applications: rows [id, candidate_id, job_id]
    inflight        \* SpecConc: per worker, the request it is handling and where it is

vars == <<users, jobs, applications, inflight>>
store == <<users, jobs, applications>>

\* ------------------------------------------------------------- tables
\* An autoincrement primary key: a fresh id, one past the last row's.
NextId(table) == IF table = <<>> THEN 1 ELSE table[Len(table)].id + 1

User(id, email, password, role) ==
    [id |-> id, email |-> email, password |-> password, role |-> role]

Job(id, title, description, recruiter_id) ==
    [id |-> id, title |-> title, description |-> description,
     recruiter_id |-> recruiter_id]

Application(id, candidate_id, job_id) ==
    [id |-> id, candidate_id |-> candidate_id, job_id |-> job_id]

\* Faulty variant of UniqueEmail: the email column without its unique index.
UniqueEmail_dropped == FALSE

\* Column(String(255), unique=True) on users.email: the store refuses a row
\* whose email is already there.
UniqueEmail == TRUE
EmailTaken(us, email) == \E i \in 1..Len(us) : us[i].email = email

\* Query(...).filter(...).first(): the matching rows in storage order; the
\* caller takes the first one, or finds none.
UsersByEmail(us, email) ==
    LET Match(u) == u.email = email IN SelectSeq(us, Match)

\* Faulty variant of UsersByEmailAndPassword: the password filter left out.
UsersByEmailAndPassword_any_password(us, email, password) ==
    LET Match(u) == u.email = email IN SelectSeq(us, Match)

UsersByEmailAndPassword(us, email, password) ==
    LET Match(u) == u.email = email /\ u.password = password IN SelectSeq(us, Match)

\* Faulty variant of JobsById: the id filter left out, so any job is found.
JobsById_unfiltered(js, job_id) == js

JobsById(js, job_id) ==
    LET Match(j) == j.id = job_id IN SelectSeq(js, Match)

\* Faulty variant of JobsByIdAndRecruiter: the owner filter left out.
JobsByIdAndRecruiter_any_owner(js, job_id, recruiter_id) ==
    LET Match(j) == j.id = job_id IN SelectSeq(js, Match)

JobsByIdAndRecruiter(js, job_id, recruiter_id) ==
    LET Match(j) == j.id = job_id /\ j.recruiter_id = recruiter_id
    IN SelectSeq(js, Match)

\* The row of a foreign key (application.job, job.recruiter, application.candidate).
RowById(table, id) == CHOOSE r \in {table[i] : i \in 1..Len(table)} : r.id = id

\* Faulty variant of UserApplications: every candidate's applications.
UserApplications_of_all(apps, user) == apps

\* relationship("Application", back_populates="candidate") on User.
UserApplications(apps, user) ==
    LET Match(a) == a.candidate_id = user.id IN SelectSeq(apps, Match)

\* The attributes the mapped classes have: their columns and relationships.
UserAttributes == {"id", "email", "password", "role", "jobs", "applications"}
JobAttributes == {"id", "title", "description", "recruiter_id", "recruiter"}
ApplicationAttributes == {"id", "candidate_id", "job_id", "job", "candidate"}

\* ------------------------------------------------------------- responses
Ok(body) == [status |-> 200, body |-> body]
HTTPException(status, detail) == [status |-> status, body |-> detail]
\* An exception no handler catches: FastAPI answers 500.
ServerError(exception) == [status |-> 500, body |-> exception]
\* OAuth2PasswordBearer refuses a request without a bearer token.
NotAuthenticated == HTTPException(401, "Not authenticated")

\* ------------------------------------------------------------- commits
\* db.add(row); db.commit() on users: the row is stored unless the unique
\* index on email refuses it, and then commit raises IntegrityError.
CommitUser(us, email, password, role) ==
    IF UniqueEmail /\ EmailTaken(us, email)
    THEN [error |-> "IntegrityError", rows |-> us]
    ELSE [error |-> "", rows |-> Append(us, User(NextId(us), email, password, role))]

CommitJob(js, title, description, user) ==
    Append(js, Job(NextId(js), title, description, user.id))

\* Faulty variant of CommitApplication: a second application of the same
\* candidate to the same job is dropped.
CommitApplication_deduplicated(apps, user, job) ==
    IF \E i \in 1..Len(apps) : apps[i].candidate_id = user.id /\ apps[i].job_id = job.id
    THEN apps
    ELSE Append(apps, Application(NextId(apps), user.id, job.id))

CommitApplication(apps, user, job) ==
    Append(apps, Application(NextId(apps), user.id, job.id))

\* Faulty variant of NotAuthorized: the role comparison left out.
NotAuthorized_any_role(user, role) == user = <<>>

\* not user or user.role != role
NotAuthorized(user, role) == user = <<>> \/ Head(user).role # role

\* Faulty variant of send_email: without the except clause, a failed attempt
\* raises to the caller.
send_email_uncaught(sent, to_email, subject, body, delivered) ==
    [sent |-> Append(sent, [to |-> to_email, subject |-> subject, body |-> body,
                            delivered |-> delivered]),
     raised |-> ~delivered]

\* send_email: one SMTP attempt, appended to the attempts made so far.  An
\* exception (the relay unreachable, the login refused) is printed and
\* swallowed by the except clause, so none is raised to the caller whether or
\* not the message was delivered.
send_email(sent, to_email, subject, body, delivered) ==
    [sent |-> Append(sent, [to |-> to_email, subject |-> subject, body |-> body,
                            delivered |-> delivered]),
     raised |-> FALSE]

\* send_email(job.recruiter.email, "Job Application Received", ...)
RecruiterMail(sent, us, user, job, delivered) ==
    send_email(sent, RowById(us, job.recruiter_id).email, "Job Application Received",
               <<user.email, "applied for your job", job.title>>, delivered)

\* send_email(user.email, "Application Submitted", ...)
CandidateMail(sent, user, job, delivered) ==
    send_email(sent, user.email, "Application Submitted",
               <<"You applied for the job", job.title>>, delivered)

\* response_model=List[JobResponse]: id, title and description of each job.
JobResponse(job) ==
    [id |-> job.id, title |-> job.title, description |-> job.description]

\* ------------------------------------------------------------- handlers
\* A handler maps the database its session sees and its request to the
\* database it leaves, its response, and the send_email calls it made.
Result(db, response, sent) == [db |-> db, response |-> response, mail |-> sent]

default(db) == Result(db, Ok("welcome home"), <<>>)

\* Faulty variant of signup: the existence check compares the password too.
signup_checks_password(db, email, password, role) ==
    LET existing_user == UsersByEmailAndPassword(db.users, email, password)
        committed == CommitUser(db.users, email, password, role)
    IN IF existing_user # <<>>
       THEN Result(db, HTTPException(400, "User already exists"), <<>>)
       ELSE Result([db EXCEPT !.users = committed.rows],
                   IF committed.error = "" THEN Ok("User created successfully")
                   ELSE ServerError(committed.error),
                   <<>>)

signup(db, email, password, role) ==
    LET existing_user == UsersByEmail(db.users, email)
        committed == CommitUser(db.users, email, password, role)
    IN IF existing_user # <<>>
       THEN Result(db, HTTPException(400, "User already exists"), <<>>)
       ELSE Result([db EXCEPT !.users = committed.rows],
                   IF committed.error = "" THEN Ok("User created successfully")
                   ELSE ServerError(committed.error),
                   <<>>)

login(db, username, password) ==
    LET user == UsersByEmailAndPassword(db.users, username, password)
    IN IF user = <<>>
       THEN Result(db, HTTPException(400, "Invalid credentials"), <<>>)
       ELSE Result(db, Ok([access_token |-> Head(user).email, token_type |-> "bearer"]),
                   <<>>)

list_jobs(db, token) ==
    IF token = NoHeader THEN Result(db, NotAuthenticated, <<>>)
    ELSE Result(db, Ok([i \in 1..Len(db.jobs) |-> JobResponse(db.jobs[i])]), <<>>)

post_job(db, token, title, description) ==
    LET user == UsersByEmail(db.users, token)
    IN IF token = NoHeader THEN Result(db, NotAuthenticated, <<>>)
       ELSE IF NotAuthorized(user, "recruiter")
       THEN Result(db, HTTPException(403, "Not authorized"), <<>>)
       ELSE Result([db EXCEPT !.jobs = CommitJob(db.jobs, title, description, Head(user))],
                   Ok("Job posted successfully"), <<>>)

apply_to_job(db, token, job_id, delivered1, delivered2) ==
    LET user == UsersByEmail(db.users, token)
        job == JobsById(db.jobs, job_id)
        committed == [db EXCEPT !.applications =
                         CommitApplication(db.applications, Head(user), Head(job))]
        first == RecruiterMail(<<>>, db.users, Head(user), Head(job), delivered1)
        second == CandidateMail(first.sent, Head(user), Head(job), delivered2)
    IN IF token = NoHeader THEN Result(db, NotAuthenticated, <<>>)
       ELSE IF NotAuthorized(user, "candidate")
       THEN Result(db, HTTPException(403, "Not authorized"), <<>>)
       ELSE IF job = <<>>
       THEN Result(db, HTTPException(404, "Job not found"), <<>>)
       ELSE IF first.raised
       THEN Result(committed, ServerError("SMTPException"), first.sent)
       ELSE IF second.raised
       THEN Result(committed, ServerError("SMTPException"), second.sent)
       ELSE Result(committed, Ok("Applied successfully"), second.sent)

list_applications(db, token) ==
    LET user == UsersByEmail(db.users, token)
        mine == UserApplications(db.applications, Head(user))
    IN IF token = NoHeader THEN Result(db, NotAuthenticated, <<>>)
       ELSE IF NotAuthorized(user, "candidate")
       THEN Result(db, HTTPException(403, "Not authorized"), <<>>)
       ELSE IF "applications" \in UserAttributes
       THEN Result(db, Ok([i \in 1..Len(mine) |-> RowById(db.jobs, mine[i].job_id)]),
                   <<>>)
       ELSE Result(db, ServerError("AttributeError"), <<>>)

list_applicants(db, token, job_id) ==
    LET user == UsersByEmail(db.users, token)
        job == JobsByIdAndRecruiter(db.jobs, job_id, Head(user).id)
        OfJob(a) == a.job_id = Head(job).id
        theirs == SelectSeq(db.applications, OfJob)
    IN IF token = NoHeader THEN Result(db, NotAuthenticated, <<>>)
       ELSE IF NotAuthorized(user, "recruiter")
       THEN Result(db, HTTPException(403, "Not authorized"), <<>>)
       ELSE IF job = <<>>
       THEN Result(db, HTTPException(404, "Job not found"), <<>>)
       ELSE IF "applications" \in JobAttributes
       THEN Result(db, Ok([i \in 1..Len(theirs) |->
                               RowById(db.users, theirs[i].candidate_id).email]),
                   <<>>)
       ELSE Result(db, ServerError("AttributeError"), <<>>)

logout(db) == Result(db, Ok("Logged out successfully"), <<>>)

\* ------------------------------------------------------------- routes (Spec)
\* One request served from start to end: the tables become what the handler
\* left.  Its response and its mail are the handler's values above.
DB == [users |-> users, jobs |-> jobs, applications |-> applications]

Serve(out) ==
    \E after \in {out.db} :
        /\ Len(after.users) <= MaxUsers
        /\ Len(after.jobs) <= MaxJobs
        /\ Len(after.applications) <= MaxApps
        /\ users' = after.users
        /\ jobs' = after.jobs
        /\ applications' = after.applications
        /\ UNCHANGED inflight

GET_root == Serve(default(DB))

POST_signup(email, password, role) == Serve(signup(DB, email, password, role))

POST_auth_token(username, password) == Serve(login(DB, username, password))

GET_jobs(token) == Serve(list_jobs(DB, token))

POST_jobs(token, title, description) == Serve(post_job(DB, token, title, description))

POST_applications(token, job_id, delivered1, delivered2) ==
    Serve(apply_to_job(DB, token, job_id, delivered1, delivered2))

GET_applications(token) == Serve(list_applications(DB, token))

GET_applicants(token, job_id) == Serve(list_applicants(DB, token, job_id))

POST_auth_logout == Serve(logout(DB))

\* ------------------------------------------------------------- Spec
\* The threadpool workers serving requests side by side in SpecConc.
Workers == {"w1", "w2"}

\* Base.metadata.create_all on an empty database: three empty tables.
Init ==
    /\ users = <<>>
    /\ jobs = <<>>
    /\ applications = <<>>
    /\ inflight = [w \in Workers |-> [pc |-> "idle"]]

Next ==
    \/ GET_root
    \/ \E e \in Emails, p \in Passwords, r \in Roles : POST_signup(e, p, r)
    \/ \E e \in Emails, p \in Passwords : POST_auth_token(e, p)
    \/ \E t \in Tokens : GET_jobs(t)
    \/ \E t \in Tokens, ti \in Titles, d \in Descriptions : POST_jobs(t, ti, d)
    \/ \E t \in Tokens, j \in JobIds, d1 \in BOOLEAN, d2 \in BOOLEAN :
          POST_applications(t, j, d1, d2)
    \/ \E t \in Tokens : GET_applications(t)
    \/ \E t \in Tokens, j \in JobIds : GET_applicants(t, j)
    \/ POST_auth_logout

Spec == Init /\ [][Next]_vars

\* ------------------------------------------------------------- properties
\* What the properties say, in terms of the rows alone.
Rows(table) == {table[i] : i \in 1..Len(table)}
Registered(us, email) == {u \in Rows(us) : u.email = email}
HasRole(email, role) == \E u \in Registered(users, email) : u.role = role
Extends(after, before) ==
    /\ Len(after) = Len(before) + 1
    /\ SubSeq(after, 1, Len(before)) = before
PairCount(apps, candidate_id, job_id) ==
    Cardinality({i \in 1..Len(apps) : /\ apps[i].candidate_id = candidate_id
                                      /\ apps[i].job_id = job_id})

\* C1: a signup with an email no User has succeeds and adds exactly one User
\* row holding the email, password and role as given; a signup with an email
\* some User already has fails with Conflict (400), whatever its password and
\* role, and leaves the Users as they are.
C1_SignupOncePerEmail ==
    \A e \in Emails, p \in Passwords, r \in Roles :
        LET out == signup(DB, e, p, r)
        IN IF Registered(users, e) = {}
           THEN /\ out.response.status = 200
                /\ Extends(out.db.users, users)
                /\ LET row == out.db.users[Len(out.db.users)]
                   IN row.email = e /\ row.password = p /\ row.role = r
           ELSE /\ out.response.status = 400
                /\ out.response.body = "User already exists"
                /\ out.db.users = users

\* A User signed up with one password and role, and a second signup with the
\* same email but another password and role is answered Conflict.
C1_Witness ==
    \E u \in Rows(users) :
        /\ u.password = "pw1" /\ u.role = "candidate"
        /\ signup(DB, u.email, "pw2", "recruiter").response.status = 400

\* C3: post_job creates a Job exactly when the credential is the email of a
\* User whose role is "recruiter", owned by that User; any other credential is
\* answered Forbidden (403) and creates nothing.  Every Job's recruiter_id is
\* the id of a User whose role is "recruiter".
C3_OnlyRecruitersPost ==
    /\ \A t \in Emails, ti \in Titles, d \in Descriptions :
           LET out == post_job(DB, t, ti, d)
           IN IF HasRole(t, "recruiter")
              THEN /\ out.response.status = 200
                   /\ Extends(out.db.jobs, jobs)
                   /\ LET row == out.db.jobs[Len(out.db.jobs)]
                      IN /\ row.title = ti /\ row.description = d
                         /\ \E u \in Registered(users, t) : row.recruiter_id = u.id
              ELSE /\ out.response.status = 403
                   /\ out.db.jobs = jobs
    /\ \A j \in Rows(jobs) :
           \E u \in Rows(users) : u.id = j.recruiter_id /\ u.role = "recruiter"

\* A Job exists, and a candidate's post_job is answered Forbidden.
C3_Witness ==
    /\ jobs # <<>>
    /\ \E u \in Rows(users) :
           /\ u.role = "candidate"
           /\ post_job(DB, u.email, "Backend Engineer", "APIs").response.status = 403

\* C4: apply creates an Application exactly when the credential is the email
\* of a User whose role is "candidate" and job_id is the id of a Job; a caller
\* who is not a candidate is answered Forbidden (403) whatever the job_id, a
\* candidate naming no Job is answered NotFound (404), and neither creates an
\* Application.  Every Application's candidate_id is the id of a User whose
\* role is "candidate" and its job_id the id of a Job.
C4_OnlyCandidatesApplyToJobs ==
    /\ \A t \in Emails, j \in JobIds, d1 \in BOOLEAN, d2 \in BOOLEAN :
           LET out == apply_to_job(DB, t, j, d1, d2)
           IN IF ~HasRole(t, "candidate")
              THEN out.response.status = 403 /\ out.db.applications = applications
              ELSE IF \A job \in Rows(jobs) : job.id # j
              THEN out.response.status = 404 /\ out.db.applications = applications
              ELSE /\ out.response.status = 200
                   /\ Extends(out.db.applications, applications)
    /\ \A a \in Rows(applications) :
           /\ \E u \in Rows(users) : u.id = a.candidate_id /\ u.role = "candidate"
           /\ \E j \in Rows(jobs) : j.id = a.job_id

\* An Application exists, a recruiter applying to a job that does not exist is
\* answered Forbidden, and a candidate doing so NotFound.
C4_Witness ==
    /\ applications # <<>>
    /\ \E u \in Rows(users) :
           /\ u.role = "recruiter"
           /\ apply_to_job(DB, u.email, MaxJobs + 1, TRUE, TRUE).response.status = 403
    /\ \E u \in Rows(users) :
           /\ u.role = "candidate"
           /\ apply_to_job(DB, u.email, MaxJobs + 1, TRUE, TRUE).response.status = 404

\* C5: each apply of a candidate to an existing job adds exactly one
\* Application of that candidate and that job, also when Applications of the
\* pair exist already, so that the pair has one more than before, and leaves
\* Users and Jobs as they are; no other request changes the Applications, so
\* n such applies leave n Applications of the pair.
C5_ApplyAddsOneEachTime ==
    /\ \A t \in Emails, j \in JobIds, d1 \in BOOLEAN, d2 \in BOOLEAN :
           (HasRole(t, "candidate") /\ \E job \in Rows(jobs) : job.id = j)
           => LET out == apply_to_job(DB, t, j, d1, d2)
                  row == out.db.applications[Len(out.db.applications)]
              IN \E u \in Registered(users, t) :
                     /\ Extends(out.db.applications, applications)
                     /\ row.candidate_id = u.id /\ row.job_id = j
                     /\ PairCount(out.db.applications, u.id, j)
                            = PairCount(applications, u.id, j) + 1
                     /\ PairCount(applications, u.id, j) + 1
                            = Cardinality({a \in Rows(out.db.applications) :
                                              a.candidate_id = u.id /\ a.job_id = j})
                     /\ out.db.users = users /\ out.db.jobs = jobs
    /\ default(DB).db.applications = applications
    /\ logout(DB).db.applications = applications
    /\ \A e \in Emails, p \in Passwords :
           /\ login(DB, e, p).db.applications = applications
           /\ \A r \in Roles : signup(DB, e, p, r).db.applications = applications
    /\ \A t \in Tokens :
           /\ list_jobs(DB, t).db.applications = applications
           /\ list_applications(DB, t).db.applications = applications
           /\ \A ti \in Titles, d \in Descriptions :
                  post_job(DB, t, ti, d).db.applications = applications
           /\ \A j \in JobIds : list_applicants(DB, t, j).db.applications = applications

\* The same candidate has applied twice to the same job, and two Applications
\* of the pair exist.
C5_Witness ==
    \E u \in Rows(users), j \in Rows(jobs) :
        PairCount(applications, u.id, j.id) >= 2

\* C7: list_applicants by a recruiter who owns no Job of that id is answered
\* NotFound (404), also when another recruiter's Job has that id; a caller who
\* is not a recruiter is answered Forbidden (403), whatever the job_id; a list
\* is returned only for a Job the caller owns.
C7_ApplicantsOfOwnJobsOnly ==
    \A t \in Emails, j \in JobIds :
        LET r == list_applicants(DB, t, j).response
            Owns == \E u \in Registered(users, t), job \in Rows(jobs) :
                        job.id = j /\ job.recruiter_id = u.id
        IN /\ ~HasRole(t, "recruiter") => r.status = 403
           /\ (HasRole(t, "recruiter") /\ ~Owns) => r.status = 404
           /\ r.status = 200 => Owns

\* Two recruiters, and one asking for the applicants of the other's Job is
\* answered NotFound.
C7_Witness ==
    \E u \in Rows(users), job \in Rows(jobs) :
        /\ u.role = "recruiter"
        /\ job.recruiter_id # u.id
        /\ list_applicants(DB, u.email, job.id).response.status = 404

\* The candidate emails of the Applications of a job, one per Application, in
\* the order the Applications were made.
RECURSIVE ApplicantEmails(_, _)
ApplicantEmails(apps, job_id) ==
    IF apps = <<>> THEN <<>>
    ELSE LET a == apps[Len(apps)]
             before == ApplicantEmails(SubSeq(apps, 1, Len(apps) - 1), job_id)
         IN IF a.job_id = job_id
            THEN Append(before, (CHOOSE u \in Rows(users) : u.id = a.candidate_id).email)
            ELSE before

\* C8: list_applicants by the recruiter who owns the job returns the emails of
\* the candidates who applied to it, one per Application, in application order.
C8_OwnerGetsApplicantEmails ==
    \A t \in Emails, j \in JobIds :
        (\E u \in Registered(users, t), job \in Rows(jobs) :
             u.role = "recruiter" /\ job.id = j /\ job.recruiter_id = u.id)
        => LET r == list_applicants(DB, t, j).response
           IN r.status = 200 /\ r.body = ApplicantEmails(applications, j)

\* The Jobs of the Applications of a candidate, one per Application, in the
\* order the Applications were made.
RECURSIVE AppliedJobs(_, _)
AppliedJobs(apps, candidate_id) ==
    IF apps = <<>> THEN <<>>
    ELSE LET a == apps[Len(apps)]
             before == AppliedJobs(SubSeq(apps, 1, Len(apps) - 1), candidate_id)
         IN IF a.candidate_id = candidate_id
            THEN Append(before, CHOOSE j \in Rows(jobs) : j.id = a.job_id)
            ELSE before

KeepsCredentials(after) ==
    \A us \in {after.users} :
        \/ us = users
        \/ \A e \in Emails :
               Registered(users, e) # {}
               => /\ Registered(us, e) = Registered(users, e)
                  /\ UsersByEmail(us, e) = UsersByEmail(users, e)

\* C10: login with the email and password of a User returns that email as
\* the credential, any other pair is answered InvalidCredentials (400); and a
\* credential that names a User names that same User, with the same role,
\* after any request whatever, logout among them, which changes no row.
C10_CredentialNeverInvalidated ==
    /\ \A e \in Emails, p \in Passwords :
           LET r == login(DB, e, p).response
           IN IF \E u \in Registered(users, e) : u.password = p
              THEN r.status = 200 /\ r.body.access_token = e
              ELSE r.status = 400 /\ r.body = "Invalid credentials"
    /\ logout(DB).db = DB
    /\ KeepsCredentials(default(DB).db)
    /\ \A e \in Emails, p \in Passwords :
           /\ KeepsCredentials(login(DB, e, p).db)
           /\ \A r \in Roles : KeepsCredentials(signup(DB, e, p, r).db)
    /\ \A t \in Tokens :
           /\ KeepsCredentials(list_jobs(DB, t).db)
           /\ KeepsCredentials(list_applications(DB, t).db)
           /\ \A ti \in Titles, d \in Descriptions :
                  KeepsCredentials(post_job(DB, t, ti, d).db)
           /\ \A j \in JobIds :
                  /\ KeepsCredentials(list_applicants(DB, t, j).db)
                  /\ \A d1 \in BOOLEAN, d2 \in BOOLEAN :
                         KeepsCredentials(apply_to_job(DB, t, j, d1, d2).db)

\* A User whose password logs in and whose email with another password does
\* not, in a state with Jobs and Applications made after the signup.
C10_Witness ==
    /\ applications # <<>>
    /\ \E u \in Rows(users) :
           /\ login(DB, u.email, u.password).response.status = 200
           /\ \E p \in Passwords : login(DB, u.email, p).response.status = 400

\* ------------------------------------------------------------- SpecConc
\* The writing handlers run by several workers at once.  A step is what a
\* handler does up to and including its next database statement or SMTP call;
\* each worker has its own session, so a row it read stays in its hands.
\* What SpecConc draws its requests from, and how far it lets the tables grow.
ConcEmails == {"r@x", "c@x"}
ConcPasswords == {"pw1"}
ConcRoles == {"recruiter", "candidate"}
ConcMaxJobs == 1
ConcMaxApps == 2
ConcJobIds == 1..(ConcMaxJobs + 1)

Free(w) == inflight[w].pc \in {"idle", "done"}
Pending(pc) == Cardinality({w \in Workers : inflight[w].pc = pc})

\* What a worker holds of its request: where it is, the rows its session has
\* read or written (NoRow: none), the send_email calls made, the response.
NoRow == [id |-> 0]
NoResponse == [status |-> 0, body |-> ""]
Slot(pc, route, request, user, job, application, sent, response) ==
    [pc |-> pc, route |-> route, req |-> request, user |-> user, job |-> job,
     application |-> application, mail |-> sent, response |-> response]

\* The request is answered: the handler returned or raised.
Done(s, response) == [s EXCEPT !.pc = "done", !.response = response]

\* signup, lines 82-84: the existence query and the Conflict it may raise.
SignupQuery(w, email, password, role) ==
    LET request == [email |-> email, password |-> password, role |-> role]
        s == Slot("signup_commit", "POST /signup", request, NoRow, NoRow, NoRow,
                  <<>>, NoResponse)
        existing_user == UsersByEmail(users, email)
    IN /\ Free(w)
       /\ IF existing_user # <<>>
          THEN inflight' = [inflight EXCEPT ![w] =
                   Done(s, HTTPException(400, "User already exists"))]
          ELSE /\ Len(users) + Pending("signup_commit") < MaxUsers
               /\ inflight' = [inflight EXCEPT ![w] = s]
       /\ UNCHANGED store

\* signup, lines 86-89: add, commit, return.
SignupCommit(w) ==
    LET s == inflight[w]
        committed == CommitUser(users, s.req.email, s.req.password, s.req.role)
    IN /\ s.pc = "signup_commit"
       /\ users' = committed.rows
       /\ inflight' = [inflight EXCEPT ![w] =
              Done(s, IF committed.error = "" THEN Ok("User created successfully")
                      ELSE ServerError(committed.error))]
       /\ UNCHANGED <<jobs, applications>>

\* post_job, lines 107-109.
PostJobQuery(w, token, title, description) ==
    LET request == [token |-> token, title |-> title, description |-> description]
        user == UsersByEmail(users, token)
        s == Slot("post_job_commit", "POST /jobs", request, NoRow, NoRow, NoRow,
                  <<>>, NoResponse)
    IN /\ Free(w)
       /\ IF token = NoHeader
          THEN inflight' = [inflight EXCEPT ![w] = Done(s, NotAuthenticated)]
          ELSE IF NotAuthorized(user, "recruiter")
          THEN inflight' = [inflight EXCEPT ![w] =
                   Done(s, HTTPException(403, "Not authorized"))]
          ELSE /\ Len(jobs) + Pending("post_job_commit") < ConcMaxJobs
               /\ inflight' = [inflight EXCEPT ![w] = [s EXCEPT !.user = Head(user)]]
       /\ UNCHANGED store

\* post_job, lines 111-114.
PostJobCommit(w) ==
    LET s == inflight[w]
    IN /\ s.pc = "post_job_commit"
       /\ jobs' = CommitJob(jobs, s.req.title, s.req.description, s.user)
       /\ inflight' = [inflight EXCEPT ![w] = Done(s, Ok("Job posted successfully"))]
       /\ UNCHANGED <<users, applications>>

\* apply_to_job, lines 128-134: the two lookups and what they may raise.
ApplyQuery(w, token, job_id) ==
    LET request == [token |-> token, job_id |-> job_id]
        user == UsersByEmail(users, token)
        job == JobsById(jobs, job_id)
        s == Slot("apply_commit", "POST /applications", request, NoRow, NoRow,
                  NoRow, <<>>, NoResponse)
    IN /\ Free(w)
       /\ IF token = NoHeader
          THEN inflight' = [inflight EXCEPT ![w] = Done(s, NotAuthenticated)]
          ELSE IF NotAuthorized(user, "candidate")
          THEN inflight' = [inflight EXCEPT ![w] =
                   Done(s, HTTPException(403, "Not authorized"))]
          ELSE IF job = <<>>
          THEN inflight' = [inflight EXCEPT ![w] =
                   Done(s, HTTPException(404, "Job not found"))]
          ELSE /\ Len(applications) + Pending("apply_commit") < ConcMaxApps
               /\ inflight' = [inflight EXCEPT ![w] =
                      [s EXCEPT !.user = Head(user), !.job = Head(job)]]
       /\ UNCHANGED store

\* apply_to_job, lines 136-138.
ApplyCommit(w) ==
    LET s == inflight[w]
        committed == CommitApplication(applications, s.user, s.job)
    IN /\ s.pc = "apply_commit"
       /\ applications' = committed
       /\ inflight' = [inflight EXCEPT ![w] =
              [s EXCEPT !.pc = "apply_mail_recruiter",
                        !.application = committed[Len(committed)]]]
       /\ UNCHANGED <<users, jobs>>

\* apply_to_job, line 140.
ApplyMailRecruiter(w, delivered) ==
    LET s == inflight[w]
        m == RecruiterMail(s.mail, users, s.user, s.job, delivered)
    IN /\ s.pc = "apply_mail_recruiter"
       /\ inflight' = [inflight EXCEPT ![w] =
              IF m.raised
              THEN Done([s EXCEPT !.mail = m.sent], ServerError("SMTPException"))
              ELSE [s EXCEPT !.pc = "apply_mail_candidate", !.mail = m.sent]]
       /\ UNCHANGED store

\* apply_to_job, line 141.
ApplyMailCandidate(w, delivered) ==
    LET s == inflight[w]
        m == CandidateMail(s.mail, s.user, s.job, delivered)
    IN /\ s.pc = "apply_mail_candidate"
       /\ inflight' = [inflight EXCEPT ![w] =
              IF m.raised
              THEN Done([s EXCEPT !.mail = m.sent], ServerError("SMTPException"))
              ELSE [s EXCEPT !.pc = "apply_return", !.mail = m.sent]]
       /\ UNCHANGED store

\* apply_to_job, line 143.
ApplyReturn(w) ==
    LET s == inflight[w]
    IN /\ s.pc = "apply_return"
       /\ inflight' = [inflight EXCEPT ![w] = Done(s, Ok("Applied successfully"))]
       /\ UNCHANGED store

NextConc ==
    \E w \in Workers :
        \/ \E e \in ConcEmails, p \in ConcPasswords, r \in ConcRoles :
              SignupQuery(w, e, p, r)
        \/ SignupCommit(w)
        \/ \E t \in ConcEmails, ti \in Titles, d \in Descriptions :
              PostJobQuery(w, t, ti, d)
        \/ PostJobCommit(w)
        \/ \E t \in ConcEmails, j \in ConcJobIds : ApplyQuery(w, t, j)
        \/ ApplyCommit(w)
        \/ \E d \in BOOLEAN : ApplyMailRecruiter(w, d)
        \/ \E d \in BOOLEAN : ApplyMailCandidate(w, d)
        \/ ApplyReturn(w)

SpecConc == Init /\ [][NextConc]_vars

\* ------------------------------------------------------------- properties of SpecConc
SignupDone(w) == inflight[w].pc = "done" /\ inflight[w].route = "POST /signup"
ApplyDone(w) == inflight[w].pc = "done" /\ inflight[w].route = "POST /applications"

\* C2: the existence check of signup and its insert are separate steps, so a
\* signup can be past its check although a User of its email has been
\* inserted since.  No two User rows share an email all the same, and only
\* because the store refuses the insert: a signup ends with the row of its
\* email present, answered either by its handler (200, 400) or with the
\* IntegrityError of the store (500), which the handler's check did not stop.
C2_UniqueByStoreConstraintOnly ==
    /\ \A i \in 1..Len(users), j \in 1..Len(users) :
           users[i].email = users[j].email => i = j
    /\ \A w \in Workers :
           SignupDone(w)
           => /\ inflight[w].response.status \in {200, 400, 500}
              /\ Registered(users, inflight[w].req.email) # {}
              /\ inflight[w].response.status = 500
                 => inflight[w].response.body = "IntegrityError"

\* Two signups with the same email both passed the existence check before
\* either inserted: one inserted and was answered 200, the other's insert was
\* refused by the store.
C2_Witness ==
    \E w \in Workers, v \in Workers :
        /\ SignupDone(w) /\ SignupDone(v)
        /\ inflight[w].req.email = inflight[v].req.email
        /\ inflight[w].response.status = 200
        /\ inflight[v].response.status = 500

\* C6: an apply that got past its checks has its Application in the table
\* before it attempts any notification; it then attempts exactly two, the
\* first to the job's recruiter and the second to the candidate, the second
\* also when the first failed; and it ends answered 200 with the Application
\* still in the table, whatever became of the two attempts.
C6_CommitThenTwoNotifications ==
    \A w \in Workers :
        LET s == inflight[w]
            Committed == \E a \in Rows(applications) :
                             /\ a = s.application
                             /\ a.candidate_id = s.user.id /\ a.job_id = s.job.id
            ToRecruiter(m) ==
                /\ m.subject = "Job Application Received"
                /\ \E u \in Rows(users) : u.id = s.job.recruiter_id /\ u.email = m.to
            ToCandidate(m) ==
                /\ m.subject = "Application Submitted" /\ m.to = s.req.token
            Passed == s.application # NoRow
        IN /\ s.pc = "apply_commit" => ~Passed /\ s.mail = <<>>
           /\ s.pc = "apply_mail_recruiter" => Committed /\ s.mail = <<>>
           /\ s.pc = "apply_mail_candidate"
              => Committed /\ Len(s.mail) = 1 /\ ToRecruiter(s.mail[1])
           /\ (s.pc = "apply_return" \/ (ApplyDone(w) /\ Passed))
              => /\ s.pc = "done" => s.response.status = 200
                 /\ Committed
                 /\ Len(s.mail) = 2 /\ ToRecruiter(s.mail[1]) /\ ToCandidate(s.mail[2])
           /\ ApplyDone(w)
              => IF Passed THEN s.response.status = 200
                 ELSE s.response.status \in {401, 403, 404} /\ s.mail = <<>>

\* An apply was answered 200 although its first notification failed, and its
\* second notification was attempted, and delivered, after the failed first.
C6_Witness ==
    \E w \in Workers :
        /\ ApplyDone(w)
        /\ inflight[w].response.status = 200
        /\ Len(inflight[w].mail) = 2
        /\ ~inflight[w].mail[1].delivered
        /\ inflight[w].mail[2].delivered

====
